---- MODULE Spec2Model ----
(***************************************************************************)
(* A model of sc2monitor's API access layer (src/sc2monitor/sc2api.py):    *)
(* the OAuth token manager (read_config, check_access_token,               *)
(* get_access_token, receive_new_access_token), the retrying request       *)
(* executor (_perform_api_request), the prologue shared by the fetchers,   *)
(* the ladder reconciliation loop (_get_ladder_data), the profile URL      *)
(* parser (parse_profile_url), and the enum lookups League.get and         *)
(* Race.get (src/sc2monitor/model.py).                                     *)
(*                                                                         *)
(* Coroutines are processes; one action is the code a coroutine runs       *)
(* between two suspension points (an awaited network call, a lock wait,    *)
(* a yield).                                                               *)
(***************************************************************************)
EXTENDS Integers, Sequences, FiniteSets, TLC

(***************************************************************************)
(* Bounds of the model.                                                    *)
(***************************************************************************)
\* Number of coroutines that call into the SC2API instance.
NumProcs == 2
\* Number of coroutines that call the request executor directly.
NumRequesters == 1
\* Number of distinct response bodies an endpoint may answer with.
MaxBody == 2
\* Number of distinct tokens the config store may hold.
NumCfgTokens == 2
\* Number of times the config store changes out of band.
MaxConfigChanges == 1
\* Largest number of entries of a ladder response's ranksAndPools.
MaxRanks == 2
\* Largest number of entries of a ladder response's ladderTeams.
MaxTeams == 2
\* Largest profile id written in a URL.
MaxId == 10
\* Longest prefix of a name that a letter-case variant writes in capitals.
MaxUpper == 3

(***************************************************************************)
(* Constants of the program.                                               *)
(***************************************************************************)
\* range(10) in _perform_api_request
MaxAttempts == 10
\* the `retries == 9` test after the loop
LastRetry == 9
\* resp.status == 504
GatewayTimeout == 504
\* status != 200, resp.status == 200
StatusOK == 200

Procs == 1..NumProcs
\* The coroutines that run a plain data request.
Requesters == {p \in Procs : p <= NumRequesters}
\* The first coroutine.
FirstProc == {p \in Procs : \A q \in Procs : p <= q}
\* The coroutine that runs a fetcher.
Fetching == FirstProc

VARIABLES
    \* ---- SC2API instance fields ----
    access_token,          \* self._access_token
    access_token_checked,  \* self._access_token_checked
    lock_locked,           \* self._access_token_lock: held?
    lock_waiters,          \* self._access_token_lock: FIFO of waiting coroutines
    request_count,         \* self.request_count
    retry_count,           \* self.retry_count
    \* ---- the controller's config store ----
    config_token,          \* controller config value of 'access_token'
    \* ---- per coroutine ----
    pc,                    \* where the coroutine is suspended
    frame,                 \* locals of the running _perform_api_request
    check_arg,             \* the `token` argument of the running check_access_token
    result,                \* what the coroutine's call returned or raised
    fetcher,               \* the fetcher the coroutine runs; "none": it calls the API layer directly
    \* ---- observations of the traffic (ghost state) ----
    gets,                  \* per coroutine: GETs issued by its executor call
    transients,            \* per coroutine: of those, how many were transient
    last_resp,             \* per coroutine: the last response its executor call got
    oauth_requests,        \* GETs sent to the OAuth token endpoint
    oauth_rejects,         \* of those, how many were not answered by a decodable 200
    check_requests,        \* GETs sent to the token-check endpoint
    start_token,           \* the token cached when the coroutines started
    config_changes,        \* out-of-band changes of the config store so far
    vouched,               \* tokens the check endpoint accepted or the OAuth endpoint issued
    \* ---- one _get_ladder_data generator ----
    data,                  \* the decoded ladder response: ranksAndPools, ladderTeams
    found_idx,             \* local found_idx
    used,                  \* local used
    rank_pos,              \* position in ranksAndPools of the next meta_data
    ladder_state,          \* "running", "raised" or "exhausted"
    ladder_exc,            \* the exception the generator raised
    yielded,               \* the entries the consumer has received, in order
    matched,               \* per yielded entry: its rank entry, its team, how it was matched (ghost)
    warned,                \* rank entries for which the MMR warning was logged
    \* ---- one parse_profile_url call ----
    url,                   \* the argument, a sequence of characters
    url_parts,             \* how the argument was put together (ghost)
    parsed,                \* what the call returned or raised
    \* ---- one League.get or Race.get call ----
    lookup,                \* the class called and the member the argument names (ghost)
    lookup_arg,            \* the argument: a string or None
    lookup_out             \* what the call returned or raised

apiVars == <<access_token, access_token_checked, lock_locked, lock_waiters,
             request_count, retry_count, config_token>>
procVars == <<pc, frame, check_arg, result>>
fetchVars == <<fetcher>>
ghostVars == <<gets, transients, last_resp, oauth_requests, oauth_rejects,
               check_requests, start_token, config_changes, vouched>>
ladderVars == <<data, found_idx, used, rank_pos, ladder_state, ladder_exc,
                yielded, matched, warned>>
urlVars == <<url, url_parts, parsed>>
enumVars == <<lookup, lookup_arg, lookup_out>>
vars == <<apiVars, procVars, fetchVars, ghostVars, ladderVars, urlVars, enumVars>>

(***************************************************************************)
(* Values.                                                                 *)
(***************************************************************************)
\* A falsy token: '' (the constructor's value) or a missing config key.
NoToken == <<>>
\* A token found in the config store.
CfgToken(i) == <<"cfg", i>>
\* The n-th token the OAuth endpoint issues.
NewToken(n) == <<"new", n>>

\* {} : the empty payload
EmptyJson == [k \in {} |-> 0]
\* No _perform_api_request running.
NoFrame == [k \in {} |-> 0]
NoResult == [kind |-> "none"]
NoResponse == [status |-> 0, decodable |-> FALSE, body |-> EmptyJson]

\* Status codes an endpoint answers with: success, gateway timeout, a rejection.
Statuses == {StatusOK, GatewayTimeout, 403}

\* Responses of an endpoint whose decoded body is one of `bodies`.
Responses(bodies) ==
    [status : Statuses, decodable : BOOLEAN, body : bodies]

\* Bodies of a data endpoint.
DataBodies == {[payload |-> b] : b \in 1..MaxBody}

(***************************************************************************)
(* _perform_api_request                                                    *)
(***************************************************************************)
\* Locals on entry: error = '', the loop variable at its first value.
NewFrame == [retries |-> 0, error |-> "", looping |-> TRUE]

\* LoopContinue with one iteration too many: range(11).
LoopContinueOneMore(f) ==
    IF f.retries < MaxAttempts
    THEN [f EXCEPT !.retries = @ + 1]
    ELSE [f EXCEPT !.looping = FALSE]

\* `continue`: the next value of range(10), or the end of the loop.
LoopContinue(f) ==
    IF f.retries + 1 < MaxAttempts
    THEN [f EXCEPT !.retries = @ + 1]
    ELSE [f EXCEPT !.looping = FALSE]

\* A response the executor retries on: 504, or resp.json() raising ContentTypeError.
IsTransient(resp) == resp.status = GatewayTimeout \/ ~resp.decodable

\* await resp.json(), then json['request_datetime'] = datetime.now()
Decode(resp) == ("request_datetime" :> "now") @@ resp.body

\* One iteration of the retry loop on the response `resp`.
PerformAttempt(f, resp) ==
    IF resp.status = GatewayTimeout
    THEN LoopContinue([f EXCEPT !.error = "API timeout"])
    ELSE IF ~resp.decodable
    THEN LoopContinue([f EXCEPT !.error = "Unable to decode JSON!"])
    ELSE ("json" :> Decode(resp)) @@ ("status" :> resp.status)
         @@ [f EXCEPT !.looping = FALSE]

\* After the loop: `if retries == 9: status = 0; json = {}`; return json, status.
\* Reading a local that no iteration bound raises UnboundLocalError.
AfterLoop(f) ==
    IF f.retries = LastRetry
    THEN [kind |-> "return", value |-> [json |-> EmptyJson, status |-> 0]]
    ELSE IF "status" \in DOMAIN f
    THEN [kind |-> "return", value |-> [json |-> f.json, status |-> f.status]]
    ELSE [kind |-> "raise", exc |-> "UnboundLocalError"]

\* The counters and traffic observations of one executor GET by coroutine p.
CountAttempt(p, resp) ==
    /\ request_count' = request_count + 1
    /\ retry_count' = retry_count + (IF IsTransient(resp) THEN 1 ELSE 0)
    /\ gets' = [gets EXCEPT ![p] = @ + 1]
    /\ transients' = [transients EXCEPT ![p] = @ + (IF IsTransient(resp) THEN 1 ELSE 0)]
    /\ last_resp' = [last_resp EXCEPT ![p] = resp]

\* The fetchers: each awaits get_access_token for its payload, awaits
\* _perform_api_request and tests the status before it uses the data.
Fetchers == {"get_season", "_get_ladders", "_get_metadata", "_get_ladder_data",
             "_get_match_history"}

\* Locals of a _perform_api_request a fetcher calls with params=payload:
\* payload['access_token'] is the value get_access_token returned.
FetchFrame(tok) == ("kwargs" :> [access_token |-> tok]) @@ NewFrame

\* FetchAfterRequest of a fetcher that uses the data whatever the status.
FetchIgnoresStatus(k, r) ==
    IF r.kind = "raise"
    THEN r
    ELSE IF k = "_get_metadata"
    THEN [kind |-> "return", value |-> r.value.json]
    ELSE [kind |-> "data", fetcher |-> k, from |-> r.value.json]

\* Fetcher k after `data, status = await self._perform_api_request(...)`
\* gave r: `if status != 200: raise InvalidApiResponse(status)`, then
\* _get_metadata returns data and the others go on to build their value
\* from data.
FetchAfterRequest(k, r) ==
    IF r.kind = "raise"
    THEN r
    ELSE IF r.value.status # StatusOK
    THEN [kind |-> "raise", exc |-> "InvalidApiResponse", arg |-> r.value.status]
    ELSE IF k = "_get_metadata"
    THEN [kind |-> "return", value |-> r.value.json]
    ELSE [kind |-> "data", fetcher |-> k, from |-> r.value.json]

\* A coroutine calls _perform_api_request on a data endpoint and suspends in
\* its first session.get.
RequestCall(p) ==
    /\ pc[p] = "idle"
    /\ pc' = [pc EXCEPT ![p] = "request"]
    /\ frame' = [frame EXCEPT ![p] = NewFrame]
    /\ UNCHANGED <<apiVars, check_arg, result, ghostVars>>
    /\ UNCHANGED <<fetchVars, ladderVars, urlVars, enumVars>>

\* The pending session.get of a data request completes with `resp`.
RequestAttempt(p, resp) ==
    /\ pc[p] = "request"
    /\ CountAttempt(p, resp)
    /\ LET f == PerformAttempt(frame[p], resp) IN
       IF f.looping
       THEN /\ frame' = [frame EXCEPT ![p] = f]
            /\ UNCHANGED <<pc, result>>
       ELSE /\ frame' = [frame EXCEPT ![p] = NoFrame]
            /\ pc' = [pc EXCEPT ![p] = "done"]
            /\ result' = [result EXCEPT ![p] =
                              IF fetcher[p] = "none"
                              THEN AfterLoop(f)
                              ELSE FetchAfterRequest(fetcher[p], AfterLoop(f))]
    /\ UNCHANGED <<access_token, access_token_checked, lock_locked, lock_waiters,
                   config_token, check_arg, oauth_requests, oauth_rejects,
                   check_requests, start_token, config_changes, vouched>>
    /\ UNCHANGED <<fetchVars, ladderVars, urlVars, enumVars>>

(***************************************************************************)
(* The token manager: asyncio.Lock, get_access_token, check_access_token,  *)
(* receive_new_access_token, read_config.                                  *)
(***************************************************************************)
\* Tokens the config store may hold.
CfgTokens == {CfgToken(i) : i \in 1..NumCfgTokens}

\* Lock.release(): the lock is free; its first waiter, if any, is woken and
\* takes it when it next runs.
Release == lock_locked' = FALSE

\* The end of get_access_token for p: leave `async with` and return
\* self._access_token as it is now (`tok`).  A fetcher puts the value in its
\* payload and suspends in the first session.get of its request.
ReleaseAndReturn(p, tok) ==
    /\ Release
    /\ IF fetcher[p] = "none"
       THEN /\ pc' = [pc EXCEPT ![p] = "done"]
            /\ result' = [result EXCEPT ![p] = [kind |-> "return", value |-> tok]]
            /\ frame' = [frame EXCEPT ![p] = NoFrame]
       ELSE /\ pc' = [pc EXCEPT ![p] = "request"]
            /\ frame' = [frame EXCEPT ![p] = FetchFrame(tok)]
            /\ UNCHANGED result

\* The end of get_access_token for p by an exception `exc` leaving `async with`.
ReleaseAndRaise(p, exc) ==
    /\ Release
    /\ pc' = [pc EXCEPT ![p] = "done"]
    /\ result' = [result EXCEPT ![p] = exc]
    /\ frame' = [frame EXCEPT ![p] = NoFrame]

\* receive_new_access_token starts: _perform_api_request suspends in its
\* first session.get on the OAuth token endpoint.
StartReceive(p) ==
    /\ pc' = [pc EXCEPT ![p] = "token_request"]
    /\ frame' = [frame EXCEPT ![p] = NewFrame]
    /\ UNCHANGED result

\* get_access_token from the moment p holds the lock to its first suspension:
\*   if (not self._access_token or (not self._access_token_checked and
\*           not await self.check_access_token(self._access_token))):
\*       await self.receive_new_access_token()
\*   return self._access_token
WithLock(p) ==
    IF access_token = NoToken
    THEN /\ lock_locked' = TRUE
         /\ StartReceive(p)
         /\ UNCHANGED check_arg
    ELSE IF ~access_token_checked
    THEN /\ lock_locked' = TRUE
         /\ pc' = [pc EXCEPT ![p] = "check"]
         /\ check_arg' = [check_arg EXCEPT ![p] = access_token]
         /\ UNCHANGED <<frame, result>>
    ELSE /\ ReleaseAndReturn(p, access_token)
         /\ UNCHANGED check_arg

\* LockFree of a lock that excludes nobody.
LockFreeAlways == TRUE

\* Lock.acquire() can take the lock without waiting.
LockFree == ~lock_locked /\ lock_waiters = <<>>

\* p calls get_access_token: it takes the lock if it is free and nobody
\* waits for it, and queues behind the waiters otherwise.
GetAccessTokenCall(p) ==
    /\ pc[p] = "idle"
    /\ IF LockFree
       THEN WithLock(p) /\ UNCHANGED lock_waiters
       ELSE /\ pc' = [pc EXCEPT ![p] = "wait"]
            /\ lock_waiters' = Append(lock_waiters, p)
            /\ UNCHANGED <<lock_locked, frame, check_arg, result>>
    /\ UNCHANGED <<access_token, access_token_checked, request_count, retry_count,
                   config_token, ghostVars>>
    /\ UNCHANGED <<fetchVars, ladderVars, urlVars, enumVars>>

\* LockWake of a lock that wakes its first waiter while it is still held.
LockWakeWhileHeld(p) ==
    /\ pc[p] = "wait"
    /\ lock_waiters # <<>>
    /\ Head(lock_waiters) = p
    /\ lock_waiters' = Tail(lock_waiters)
    /\ WithLock(p)
    /\ UNCHANGED <<access_token, access_token_checked, request_count, retry_count,
                   config_token, ghostVars>>
    /\ UNCHANGED <<fetchVars, ladderVars, urlVars, enumVars>>

\* The first waiter of the released lock runs: it takes the lock.
LockWake(p) ==
    /\ pc[p] = "wait"
    /\ ~lock_locked
    /\ lock_waiters # <<>>
    /\ Head(lock_waiters) = p
    /\ lock_waiters' = Tail(lock_waiters)
    /\ WithLock(p)
    /\ UNCHANGED <<access_token, access_token_checked, request_count, retry_count,
                   config_token, ghostVars>>
    /\ UNCHANGED <<fetchVars, ladderVars, urlVars, enumVars>>

\* CheckEffect that never records an accepted token as checked.
CheckEffectForgetsFlag(p, st) ==
    /\ request_count' = request_count + 1
    /\ access_token_checked' = FALSE
    /\ check_requests' = check_requests + 1
    /\ vouched' = IF st = StatusOK THEN vouched \cup {check_arg[p]} ELSE vouched

\* CheckEffect without `self.request_count += 1`.
CheckEffectUncounted(p, st) ==
    /\ UNCHANGED request_count
    /\ access_token_checked' = (st = StatusOK)
    /\ check_requests' = check_requests + 1
    /\ vouched' = IF st = StatusOK THEN vouched \cup {check_arg[p]} ELSE vouched

\* check_access_token's GET completes with `st`: the flag is set for whatever
\* token the instance holds now.
CheckEffect(p, st) ==
    /\ request_count' = request_count + 1
    /\ access_token_checked' = (st = StatusOK)
    /\ check_requests' = check_requests + 1
    /\ vouched' = IF st = StatusOK THEN vouched \cup {check_arg[p]} ELSE vouched

\* The check_access_token awaited by get_access_token returns.
CheckResponse(p, st) ==
    /\ pc[p] = "check"
    /\ CheckEffect(p, st)
    /\ IF st = StatusOK
       THEN ReleaseAndReturn(p, access_token)
       ELSE StartReceive(p) /\ UNCHANGED lock_locked
    /\ UNCHANGED <<access_token, lock_waiters, retry_count, config_token, check_arg,
                   gets, transients, last_resp, oauth_requests, oauth_rejects,
                   start_token, config_changes>>
    /\ UNCHANGED <<fetchVars, ladderVars, urlVars, enumVars>>

\* What the OAuth token endpoint may answer to the next token request: on
\* success, a token it has not issued before.
OAuthResponses ==
    Responses({[access_token |-> NewToken(oauth_requests + 1)]})

\* The OAuth endpoint issued the token in `resp`.
Issued(resp) == resp.status = StatusOK /\ resp.decodable

\* ReceiveAfterRequest storing data.get('access_token') before it tests status.
ReceiveStoresFirst(p, r) ==
    /\ access_token' = IF r.kind = "return" /\ "access_token" \in DOMAIN r.value.json
                       THEN r.value.json.access_token ELSE NoToken
    /\ IF r.kind = "raise"
       THEN /\ ReleaseAndRaise(p, r)
            /\ UNCHANGED <<access_token_checked, config_token>>
       ELSE IF r.value.status # StatusOK
       THEN /\ ReleaseAndRaise(p, [kind |-> "raise", exc |-> "InvalidApiResponse",
                                   arg |-> r.value.status])
            /\ UNCHANGED <<access_token_checked, config_token>>
       ELSE /\ access_token_checked' = TRUE
            /\ config_token' = r.value.json.access_token
            /\ ReleaseAndReturn(p, r.value.json.access_token)

\* receive_new_access_token after _perform_api_request returned `r`.
ReceiveAfterRequest(p, r) ==
    IF r.kind = "raise"
    THEN /\ ReleaseAndRaise(p, r)
         /\ UNCHANGED <<access_token, access_token_checked, config_token>>
    ELSE IF r.value.status # StatusOK
    THEN /\ ReleaseAndRaise(p, [kind |-> "raise", exc |-> "InvalidApiResponse",
                                arg |-> r.value.status])
         /\ UNCHANGED <<access_token, access_token_checked, config_token>>
    ELSE /\ access_token' = r.value.json.access_token
         /\ access_token_checked' = TRUE
         /\ config_token' = r.value.json.access_token
         /\ ReleaseAndReturn(p, r.value.json.access_token)

\* The pending session.get of the token request completes with `resp`.
TokenAttempt(p, resp) ==
    /\ pc[p] = "token_request"
    /\ CountAttempt(p, resp)
    /\ oauth_requests' = oauth_requests + 1
    /\ oauth_rejects' = oauth_rejects + (IF Issued(resp) THEN 0 ELSE 1)
    /\ vouched' = IF Issued(resp) THEN vouched \cup {resp.body.access_token}
                  ELSE vouched
    /\ LET f == PerformAttempt(frame[p], resp) IN
       IF f.looping
       THEN /\ frame' = [frame EXCEPT ![p] = f]
            /\ UNCHANGED <<pc, result, lock_locked, access_token,
                           access_token_checked, config_token>>
       ELSE ReceiveAfterRequest(p, AfterLoop(f))
    /\ UNCHANGED <<lock_waiters, check_arg, check_requests, start_token, config_changes>>
    /\ UNCHANGED <<fetchVars, ladderVars, urlVars, enumVars>>

\* ReadConfig that replaces the cached token and keeps the flag.
ReadConfigKeepsFlag ==
    /\ IF access_token # config_token
       THEN /\ access_token' = config_token
            /\ UNCHANGED access_token_checked
       ELSE UNCHANGED <<access_token, access_token_checked>>
    /\ UNCHANGED <<lock_locked, lock_waiters, request_count, retry_count,
                   config_token, procVars, ghostVars>>
    /\ UNCHANGED <<fetchVars, ladderVars, urlVars, enumVars>>

\* read_config: the token of the config store replaces a different cached one,
\* which resets the flag.
ReadConfig ==
    /\ IF access_token # config_token
       THEN /\ access_token' = config_token
            /\ access_token_checked' = FALSE
       ELSE UNCHANGED <<access_token, access_token_checked>>
    /\ UNCHANGED <<lock_locked, lock_waiters, request_count, retry_count,
                   config_token, procVars, ghostVars>>
    /\ UNCHANGED <<fetchVars, ladderVars, urlVars, enumVars>>

\* The config store changes out of band.
ConfigChange(tok) ==
    /\ config_changes < MaxConfigChanges
    /\ tok # config_token
    /\ config_token' = tok
    /\ config_changes' = config_changes + 1
    /\ UNCHANGED <<access_token, access_token_checked, lock_locked, lock_waiters,
                   request_count, retry_count, procVars, gets, transients, last_resp,
                   oauth_requests, oauth_rejects, check_requests, start_token,
                   vouched>>
    /\ UNCHANGED <<fetchVars, ladderVars, urlVars, enumVars>>

\* p calls check_access_token(tok) itself and suspends in its GET.
CheckAccessTokenCall(p, tok) ==
    /\ pc[p] = "idle"
    /\ pc' = [pc EXCEPT ![p] = "own_check"]
    /\ check_arg' = [check_arg EXCEPT ![p] = tok]
    /\ UNCHANGED <<apiVars, frame, result, ghostVars>>
    /\ UNCHANGED <<fetchVars, ladderVars, urlVars, enumVars>>

\* The GET of p's own check_access_token call completes with `st`.
CheckAccessTokenReturn(p, st) ==
    /\ pc[p] = "own_check"
    /\ CheckEffect(p, st)
    /\ pc' = [pc EXCEPT ![p] = "done"]
    /\ result' = [result EXCEPT ![p] = [kind |-> "verdict", value |-> (st = StatusOK)]]
    /\ UNCHANGED <<access_token, lock_locked, lock_waiters, retry_count, config_token,
                   frame, check_arg, gets, transients, last_resp, oauth_requests,
                   oauth_rejects, start_token, config_changes>>
    /\ UNCHANGED <<fetchVars, ladderVars, urlVars, enumVars>>

(***************************************************************************)
(* _get_ladder_data: the reconciliation loop over data['ranksAndPools'].   *)
(* Sequences are 1-based here; the code's indices (idx, team_idx,          *)
(* found_idx, the members of used) keep their 0-based Python values.       *)
(***************************************************************************)
\* The profile the ladder is fetched for: (profileID, realmID).
Target == [id |-> 42, realm |-> 1]

\* First members a team may have: the target, its id in another realm,
\* another player.
Members == {[id |-> 42, realm |-> 1], [id |-> 42, realm |-> 2], [id |-> 7, realm |-> 1]}

\* MMR values of a team.
Mmrs == {3500, 3600}

\* A team: its first member (teamMembers[0]) and its mmr.
Teams == [member : Members, mmr : Mmrs]

\* A ranksAndPools entry; rank - 1 may fall before, inside or past ladderTeams.
RankEntries == [rank : (0 - MaxTeams)..(MaxTeams + 1), mmr : {3500}]

SeqsUpTo(S, n) == UNION {[1..k -> S] : k \in 0..n}

\* Ladder responses.
LadderData == [ranksAndPools : SeqsUpTo(RankEntries, MaxRanks),
               ladderTeams : SeqsUpTo(Teams, MaxTeams)]

Range(seq) == {seq[i] : i \in DOMAIN seq}

\* seq[idx] of a Python list does not raise IndexError.
InRange(seq, idx) == 0 - Len(seq) <= idx /\ idx < Len(seq)

\* The 0-based position seq[idx] of a Python list reads: negative indices
\* count from the end.
PyPos(seq, idx) == IF idx >= 0 THEN idx ELSE Len(seq) + idx

\* seq[idx] of a Python list, for idx in range.
PyItem(seq, idx) == seq[PyPos(seq, idx) + 1]

\* Matches without the realm test.
MatchesIdOnly(team) == team.member.id = Target.id

\* int(player.get('id')) == profileID and int(player.get('realm')) == realmID
Matches(team) ==
    team.member.id = Target.id /\ team.member.realm = Target.realm

\* The try block succeeds: ladderTeams[rank - 1] exists and both asserts hold.
ClaimedOk(teams, idx) == InRange(teams, idx) /\ Matches(PyItem(teams, idx))

\* The team indices the fallback loop accepts, were it not to break.
ScanHits(teams, fidx, usd) ==
    {t \in (fidx + 1)..(Len(teams) - 1) : t \notin Range(usd) /\ Matches(teams[t + 1])}

Min(S) == CHOOSE x \in S : \A y \in S : x <= y

\* The exception `raise InvalidApiResponse(r.url)` ends in: the argument is
\* evaluated first, and no name r is bound in the function, the module or
\* the builtins.
BoundNames ==
    {"self", "server", "realmID", "profileID", "ladderID", "api_url", "payload",
     "data", "status", "league", "found_idx", "found", "used", "meta_data", "mmr",
     "idx", "team", "player", "team_idx", "race", "games",
     "asyncio", "logging", "re", "datetime", "model", "BasicAuth",
     "ContentTypeError", "logger", "SC2API", "InvalidApiResponse"}

RaiseNotFound ==
    IF "r" \in BoundNames THEN "InvalidApiResponse" ELSE "NameError"

\* The emitted mmr when the rank entry's value is never replaced.
EmitMmrOfRank(mmr, team) == mmr

\* `if mmr != team.get('mmr'): ...; mmr = team.get('mmr')`, then int(mmr).
EmitMmr(mmr, team) == IF mmr # team.mmr THEN team.mmr ELSE mmr

\* Reconcile moving found_idx on a match of the try block as well.
ReconcileMovesWatermark(teams, meta, fidx, usd) ==
    LET idx == meta.rank - 1 IN
    IF ClaimedOk(teams, idx)
    THEN [how |-> "claimed", idx |-> idx, pos |-> PyPos(teams, idx),
          found_idx |-> PyPos(teams, idx)]
    ELSE IF ScanHits(teams, fidx, usd) # {}
    THEN LET t == Min(ScanHits(teams, fidx, usd)) IN
         [how |-> "scan", idx |-> t, pos |-> t, found_idx |-> t]
    ELSE [how |-> "none", idx |-> idx, pos |-> idx, found_idx |-> fidx]

\* One loop iteration for meta_data: what it matched ("claimed": the try
\* block; "scan": the fallback loop; "none": neither), the index appended to
\* used, the 0-based position of the team, and the new found_idx.
Reconcile(teams, meta, fidx, usd) ==
    LET idx == meta.rank - 1 IN
    IF ClaimedOk(teams, idx)
    THEN [how |-> "claimed", idx |-> idx, pos |-> PyPos(teams, idx), found_idx |-> fidx]
    ELSE IF ScanHits(teams, fidx, usd) # {}
    THEN LET t == Min(ScanHits(teams, fidx, usd)) IN
         [how |-> "scan", idx |-> t, pos |-> t, found_idx |-> t]
    ELSE [how |-> "none", idx |-> idx, pos |-> idx, found_idx |-> fidx]

\* NextPos leaving out every other entry.
NextPosSkip(pos) == pos + 2

\* `for meta_data in data.get('ranksAndPools')`: the entry after position pos.
NextPos(pos) == pos + 1

\* The rank entry the generator's next iteration handles.
MetaData == data.ranksAndPools[rank_pos]

\* The generator is resumed, matches a team and yields its entry.
LadderYield ==
    /\ ladder_state = "running"
    /\ rank_pos <= Len(data.ranksAndPools)
    /\ LET m == Reconcile(data.ladderTeams, MetaData, found_idx, used)
           team == data.ladderTeams[m.pos + 1]
       IN /\ m.how # "none"
          /\ used' = Append(used, m.idx)
          /\ found_idx' = m.found_idx
          /\ yielded' = Append(yielded, [mmr |-> EmitMmr(MetaData.mmr, team)])
          /\ matched' = Append(matched, [entry |-> rank_pos, team |-> m.pos,
                                         how |-> m.how])
          /\ warned' = IF MetaData.mmr # team.mmr THEN warned \cup {rank_pos}
                       ELSE warned
    /\ rank_pos' = NextPos(rank_pos)
    /\ UNCHANGED <<data, ladder_state, ladder_exc>>
    /\ UNCHANGED <<apiVars, procVars, fetchVars, ghostVars, urlVars, enumVars>>

\* The generator is resumed, matches no team and raises.
LadderRaise ==
    /\ ladder_state = "running"
    /\ rank_pos <= Len(data.ranksAndPools)
    /\ Reconcile(data.ladderTeams, MetaData, found_idx, used).how = "none"
    /\ ladder_state' = "raised"
    /\ ladder_exc' = RaiseNotFound
    /\ UNCHANGED <<data, found_idx, used, rank_pos, yielded, matched, warned>>
    /\ UNCHANGED <<apiVars, procVars, fetchVars, ghostVars, urlVars, enumVars>>

\* The generator is resumed after the last rank entry: the loop ends and the
\* consumer's `async for` stops.
LadderStop ==
    /\ ladder_state = "running"
    /\ rank_pos > Len(data.ranksAndPools)
    /\ ladder_state' = "exhausted"
    /\ UNCHANGED <<data, found_idx, used, rank_pos, ladder_exc, yielded, matched,
                   warned>>
    /\ UNCHANGED <<apiVars, procVars, fetchVars, ghostVars, urlVars, enumVars>>

(***************************************************************************)
(* parse_profile_url and the two patterns of _precompile.  A string is a   *)
(* sequence of characters; a matcher takes the position of the next        *)
(* character (0: the match has failed) and returns the position after what *)
(* it consumed.                                                            *)
(***************************************************************************)
\* Literals of the two patterns and of the URLs, as character sequences.
HTTP == <<"h", "t", "t", "p">>
HTTPS_UPPER == <<"H", "T", "T", "P", "S">>
COLON_STARCRAFT2 == <<":", "/", "/", "s", "t", "a", "r", "c", "r", "a", "f", "t", "2">>
COM_SLASH == <<"c", "o", "m", "/">>
PROFILE_SLASH == <<"p", "r", "o", "f", "i", "l", "e", "/">>
SLASH_PROFILE_SLASH == <<"/", "p", "r", "o", "f", "i", "l", "e", "/">>
BATTLE == <<"b", "a", "t", "t", "l", "e">>
NET_SC2_SLASH == <<"n", "e", "t", "/", "s", "c", "2", "/">>
STARCRAFT2_COM == <<"s", "t", "a", "r", "c", "r", "a", "f", "t", "2", ".", "c", "o", "m", "/">>
DOT_BATTLE_NET_SC2 == <<".", "b", "a", "t", "t", "l", "e", ".", "n", "e", "t", "/", "s", "c", "2", "/">>

UpperCase == <<"A", "B", "C", "D", "E", "F", "G", "H", "I", "J", "K", "L", "M",
               "N", "O", "P", "Q", "R", "S", "T", "U", "V", "W", "X", "Y", "Z">>
LowerCase == <<"a", "b", "c", "d", "e", "f", "g", "h", "i", "j", "k", "l", "m",
               "n", "o", "p", "q", "r", "s", "t", "u", "v", "w", "x", "y", "z">>
DigitChars == <<"0", "1", "2", "3", "4", "5", "6", "7", "8", "9">>

\* str.lower() of one character; also how re.IGNORECASE compares letters.
Lower(c) ==
    IF \E i \in DOMAIN UpperCase : UpperCase[i] = c
    THEN LowerCase[CHOOSE i \in DOMAIN UpperCase : UpperCase[i] = c]
    ELSE c

\* \d
IsDigit(c) == c \in Range(DigitChars)

\* \w
IsWord(c) == Lower(c) \in Range(LowerCase) \/ IsDigit(c) \/ c = "_"

\* A literal of the pattern, letters compared without case.
Lit(str, i, lit) ==
    IF /\ i # 0
       /\ i + Len(lit) - 1 <= Len(str)
       /\ \A k \in DOMAIN lit : Lower(str[i + k - 1]) = Lower(lit[k])
    THEN i + Len(lit)
    ELSE 0

\* lit? : the literal if it is there.
Opt(str, i, lit) == IF Lit(str, i, lit) # 0 THEN Lit(str, i, lit) ELSE i

\* An unescaped `.` of the pattern: any character but a newline.
AnyChar(str, i) == IF i # 0 /\ i <= Len(str) /\ str[i] # "\n" THEN i + 1 ELSE 0

\* A character class such as [1-5].
OneOf(str, i, class) == IF i # 0 /\ i <= Len(str) /\ str[i] \in class THEN i + 1 ELSE 0

RECURSIVE DigitsEnd(_, _)
\* The position after the longest run of digits from position i.
DigitsEnd(str, i) ==
    IF i <= Len(str) /\ IsDigit(str[i]) THEN DigitsEnd(str, i + 1) ELSE i

RECURSIVE WordEnd(_, _)
\* The position after the longest run of word characters from position i.
WordEnd(str, i) ==
    IF i <= Len(str) /\ IsWord(str[i]) THEN WordEnd(str, i + 1) ELSE i

\* \d+ : greedy; what follows it in both patterns is no digit.
Digits(str, i) == IF i # 0 /\ DigitsEnd(str, i) > i THEN DigitsEnd(str, i) ELSE 0

\* \w+ : greedy; what follows it in both patterns is no word character.
Word(str, i) == IF i # 0 /\ WordEnd(str, i) > i THEN WordEnd(str, i) ELSE 0

NoMatch == [ok |-> FALSE]

\* self._p1 from `profile\/` on: profile\/([1-5])\/([1-2])\/(\d+)\/?
P1Tail(str, i) ==
    LET a == Lit(str, i, PROFILE_SLASH)
        b == OneOf(str, a, {"1", "2", "3", "4", "5"})
        c == Lit(str, b, <<"/">>)
        d == OneOf(str, c, {"1", "2"})
        e == Lit(str, d, <<"/">>)
        f == Digits(str, e)
    IN IF f = 0 THEN NoMatch
       ELSE [ok |-> TRUE, g1 |-> <<str[a]>>, g2 |-> <<str[c]>>,
             g3 |-> SubSeq(str, e, f - 1)]

\* self._p1.match(url):
\*   ^https?:\/\/starcraft2.com\/(?:\w+-\w+\/)?profile\/([1-5])\/([1-2])\/(\d+)\/?
P1Match(str) ==
    LET a == Lit(str, 1, HTTP)
        b == Opt(str, a, <<"s">>)
        c == Lit(str, b, COLON_STARCRAFT2)
        d == AnyChar(str, c)
        e == Lit(str, d, COM_SLASH)
        g == Lit(str, Word(str, Lit(str, Word(str, e), <<"-">>)), <<"/">>)
    IN IF g # 0 /\ P1Tail(str, g).ok THEN P1Tail(str, g) ELSE P1Tail(str, e)

\* self._p2.match(url):
\*   ^https?:\/\/(eu|us).battle.net\/sc2\/\w+\/profile/(\d+)\/([1-2])\/\w+\/?
P2Match(str) ==
    LET a == Lit(str, 1, HTTP)
        b == Opt(str, a, <<"s">>)
        c == Lit(str, b, <<":", "/", "/">>)
        d == IF Lit(str, c, <<"e", "u">>) # 0 THEN Lit(str, c, <<"e", "u">>)
             ELSE Lit(str, c, <<"u", "s">>)
        e == Lit(str, AnyChar(str, d), BATTLE)
        f == Lit(str, AnyChar(str, e), NET_SC2_SLASH)
        g == Lit(str, Word(str, f), SLASH_PROFILE_SLASH)
        h == Digits(str, g)
        k == Lit(str, h, <<"/">>)
        l == OneOf(str, k, {"1", "2"})
        m == Word(str, Lit(str, l, <<"/">>))
    IN IF m = 0 THEN NoMatch
       ELSE [ok |-> TRUE, g1 |-> SubSeq(str, c, d - 1), g2 |-> SubSeq(str, g, h - 1),
             g3 |-> <<str[k]>>]

\* The value of one decimal digit.
DigitVal(c) == (CHOOSE i \in DOMAIN DigitChars : DigitChars[i] = c) - 1

RECURSIVE IntOf(_)
\* int(s) of a string of decimal digits.
IntOf(digits) ==
    IF digits = <<>> THEN 0
    ELSE 10 * IntOf(SubSeq(digits, 1, Len(digits) - 1)) + DigitVal(digits[Len(digits)])

\* The values of the members of model.Server.
ServerValues == {0, 1, 2, 3}

ValueError == [kind |-> "raise", exc |-> "ValueError"]

\* model.Server(v): the member with value v, or ValueError.
ServerEnum(v) ==
    IF v \in ServerValues
    THEN [kind |-> "return", value |-> [enum |-> "Server", value |-> v]]
    ELSE ValueError

\* The lower-cased string s.
LowerStr(str) == [i \in DOMAIN str |-> Lower(str[i])]

\* parse_profile_url(url)
ParseProfileUrlOf(str) ==
    LET m1 == P1Match(str)
        m2 == P2Match(str)
    IN IF m1.ok
       THEN LET server == ServerEnum(IntOf(m1.g1)) IN
            IF server.kind = "raise" THEN server
            ELSE [kind |-> "return",
                  value |-> <<server.value, IntOf(m1.g2), IntOf(m1.g3)>>]
       ELSE IF m2.ok
       THEN LET server == ServerEnum(IF LowerStr(m2.g1) = <<"e", "u">> THEN 2 ELSE 1) IN
            IF server.kind = "raise" THEN server
            ELSE [kind |-> "return",
                  value |-> <<server.value, IntOf(m2.g3), IntOf(m2.g2)>>]
       ELSE ValueError

\* The call parse_profile_url(url).
ParseProfileUrl ==
    /\ parsed = NoResult
    /\ url_parts.grammar # "none"
    /\ parsed' = ParseProfileUrlOf(url)
    /\ UNCHANGED <<url, url_parts>>
    /\ UNCHANGED <<apiVars, procVars, fetchVars, ghostVars, ladderVars, enumVars>>

(***************************************************************************)
(* model.League.get and model.Race.get, the lookups _get_ladder_data       *)
(* shapes an entry with.  Members are listed in the order of the class     *)
(* body, which is the order `cls.__members__` is iterated in.              *)
(***************************************************************************)
\* class League(enum.Enum)
LeagueMembers ==
    <<
       [enum |-> "League", name |-> <<"U", "n", "r", "a", "n", "k", "e", "d">>,
        value |-> 0 - 1],
       [enum |-> "League", name |-> <<"B", "r", "o", "n", "z", "e">>,
        value |-> 0],
       [enum |-> "League", name |-> <<"S", "i", "l", "v", "e", "r">>,
        value |-> 1],
       [enum |-> "League", name |-> <<"G", "o", "l", "d">>,
        value |-> 2],
       [enum |-> "League", name |-> <<"P", "l", "a", "t", "i", "n", "u", "m">>,
        value |-> 3],
       [enum |-> "League", name |-> <<"D", "i", "a", "m", "o", "n", "d">>,
        value |-> 4],
       [enum |-> "League", name |-> <<"M", "a", "s", "t", "e", "r">>,
        value |-> 5],
       [enum |-> "League", name |-> <<"G", "r", "a", "n", "d", "m", "a", "s", "t", "e", "r">>,
        value |-> 6]
    >>

\* class Race(enum.Enum)
RaceMembers ==
    <<
       [enum |-> "Race", name |-> <<"R", "a", "n", "d", "o", "m">>,
        value |-> 0],
       [enum |-> "Race", name |-> <<"P", "r", "o", "t", "o", "s", "s">>,
        value |-> 1],
       [enum |-> "Race", name |-> <<"T", "e", "r", "r", "a", "n">>,
        value |-> 2],
       [enum |-> "Race", name |-> <<"Z", "e", "r", "g">>,
        value |-> 3]
    >>

\* str.upper() of one character.
Upper(c) ==
    IF \E i \in DOMAIN LowerCase : LowerCase[i] = c
    THEN UpperCase[CHOOSE i \in DOMAIN LowerCase : LowerCase[i] = c]
    ELSE c

\* None, as data.get(...) returns it for a missing key.
PyNone == [type |-> "NoneType"]

\* A str value.
PyStr(chars) == [type |-> "str", chars |-> chars]

\* `not str`: None and '' are falsy.
Falsy(arg) == arg = PyNone \/ arg.chars = <<>>

\* The members whose name begins with the argument's first letter, letter
\* case aside: `member[0:1].lower() == str[0:1].lower()`.
FirstLetterHits(members, arg) ==
    {i \in DOMAIN members : Lower(members[i].name[1]) = Lower(arg.chars[1])}

\* The body shared by League.get and Race.get: the default for a falsy
\* argument, else the first member in iteration order whose first letter
\* matches, else ValueError.
EnumGet(members, default, arg) ==
    IF Falsy(arg)
    THEN [kind |-> "return", value |-> members[default]]
    ELSE IF FirstLetterHits(members, arg) # {}
    THEN [kind |-> "return", value |-> members[Min(FirstLetterHits(members, arg))]]
    ELSE ValueError

\* League.get(arg); cls.Unranked is the first member.
LeagueGet(arg) == EnumGet(LeagueMembers, 1, arg)

\* Race.get(arg); cls.Random is the first member.
RaceGet(arg) == EnumGet(RaceMembers, 1, arg)

\* The members of the class named cls.
MembersOf(cls) == IF cls = "League" THEN LeagueMembers ELSE RaceMembers

\* The call League.get(lookup_arg) or Race.get(lookup_arg).
EnumLookup ==
    /\ lookup.cls # "none"
    /\ lookup_out = NoResult
    /\ lookup_out' = IF lookup.cls = "League" THEN LeagueGet(lookup_arg)
                     ELSE RaceGet(lookup_arg)
    /\ UNCHANGED <<lookup, lookup_arg>>
    /\ UNCHANGED <<apiVars, procVars, fetchVars, ghostVars, ladderVars, urlVars>>

\* A name with its first n letters in capitals and the others in small letters.
CaseVariant(name, n) ==
    [k \in DOMAIN name |-> IF k <= n THEN Upper(name[k]) ELSE Lower(name[k])]

\* Letter-case variants of a name: all small, the first letters in capitals
\* (one capital is the name as declared), all capitals.
CaseVariants(name) ==
    {CaseVariant(name, n) : n \in (0..MaxUpper) \cup {Len(name)}}

(***************************************************************************)
(* The URLs parse_profile_url is called with: put together from parts that *)
(* may each be well-formed or not.                                         *)
(***************************************************************************)
RECURSIVE Decimal(_)
\* The decimal digits of the natural number n.
Decimal(n) ==
    IF n < 10 THEN <<DigitChars[n + 1]>>
    ELSE Decimal(n \div 10) \o <<DigitChars[(n % 10) + 1]>>

Schemes == {HTTP \o <<":", "/", "/">>, HTTPS_UPPER \o <<":", "/", "/">>,
            <<"f", "t", "p", ":", "/", "/">>}
GoodSchemes == {HTTP \o <<":", "/", "/">>, HTTPS_UPPER \o <<":", "/", "/">>}

GenericHosts == {STARCRAFT2_COM, <<"s", "c", "2", ".", "c", "o", "m", "/">>}
Locales == {<<>>, <<"e", "n", "-", "u", "s", "/">>, <<"e", "n", "/">>}
GoodLocales == {<<>>, <<"e", "n", "-", "u", "s", "/">>}
Regions == {<<"e", "u">>, <<"U", "S">>, <<"k", "r">>}
GoodRegions == {<<"e", "u">>, <<"U", "S">>}
Names == {<<"N", "a", "m", "e">>, <<>>}
Tails == {<<>>, <<"/">>, <<"/", "x">>}

\* Profile ids as written in a URL: a number, possibly with a leading zero, or
\* something that is no number.
IdTexts ==
    {[num |-> n, text |-> pad \o Decimal(n)] : n \in 0..MaxId, pad \in {<<>>, <<"0">>}}
    \cup {[num |-> 0 - 1, text |-> t] : t \in {<<>>, <<"x">>}}

GenericParts ==
    [grammar : {"generic"}, scheme : Schemes, host : GenericHosts, locale : Locales,
     server : 0..6, realm : 0..3, id : IdTexts, tail : Tails]

RegionParts ==
    [grammar : {"region"}, scheme : Schemes, region : Regions, realm : 0..3,
     id : IdTexts, name : Names, tail : Tails]

\* The URL made of the parts.
Assemble(parts) ==
    IF parts.grammar = "generic"
    THEN parts.scheme \o parts.host \o parts.locale \o PROFILE_SLASH
         \o Decimal(parts.server) \o <<"/">> \o Decimal(parts.realm) \o <<"/">>
         \o parts.id.text \o parts.tail
    ELSE parts.scheme \o parts.region \o DOT_BATTLE_NET_SC2 \o <<"e", "n">>
         \o SLASH_PROFILE_SLASH \o parts.id.text \o <<"/">> \o Decimal(parts.realm)
         \o <<"/">> \o parts.name \o parts.tail

(***************************************************************************)
(* Initial states.                                                         *)
(***************************************************************************)
\* The state after SC2API.__init__ with `tok` in the config store: read_config
\* has copied it, unchecked.
InitApi(tok) ==
    /\ config_token = tok
    /\ access_token = tok
    /\ access_token_checked = FALSE
    /\ lock_locked = FALSE
    /\ lock_waiters = <<>>
    /\ request_count = 0
    /\ retry_count = 0

InitProcs ==
    /\ pc = [p \in Procs |-> "idle"]
    /\ frame = [p \in Procs |-> NoFrame]
    /\ check_arg = [p \in Procs |-> NoToken]
    /\ result = [p \in Procs |-> NoResult]

\* No coroutine runs a fetcher.
NoFetcher == fetcher = [p \in Procs |-> "none"]

InitGhost ==
    /\ gets = [p \in Procs |-> 0]
    /\ transients = [p \in Procs |-> 0]
    /\ last_resp = [p \in Procs |-> NoResponse]
    /\ oauth_requests = 0
    /\ oauth_rejects = 0
    /\ check_requests = 0
    /\ start_token = access_token
    /\ config_changes = 0
    /\ vouched = {}

(***************************************************************************)
(* SpecReq: coroutines that each run one _perform_api_request.             *)
(***************************************************************************)
\* A generator that has received the ladder response `d` with status 200 and
\* is about to enter its loop: found_idx = -1, used = [].
InitLadder(d) ==
    /\ data = d
    /\ found_idx = 0 - 1
    /\ used = <<>>
    /\ rank_pos = 1
    /\ ladder_state = "running"
    /\ ladder_exc = ""
    /\ yielded = <<>>
    /\ matched = <<>>
    /\ warned = {}

\* No ladder fetch: an empty response.
NoLadder == InitLadder([ranksAndPools |-> <<>>, ladderTeams |-> <<>>])

\* No League.get or Race.get call.
NoLookup ==
    /\ lookup = [cls |-> "none", member |-> 0]
    /\ lookup_arg = PyNone
    /\ lookup_out = NoResult

\* No URL to parse.
NoUrl ==
    /\ url = <<>>
    /\ url_parts = [grammar |-> "none"]
    /\ parsed = NoResult

InitReq ==
    InitApi(NoToken) /\ InitProcs /\ NoFetcher /\ InitGhost /\ NoLadder /\ NoUrl /\ NoLookup

NextReq ==
    \E p \in Requesters :
        \/ RequestCall(p)
        \/ \E resp \in Responses(DataBodies) : RequestAttempt(p, resp)

SpecReq == InitReq /\ [][NextReq]_vars

(***************************************************************************)
(* SpecCallers: coroutines that each call get_access_token once, with no   *)
(* other use of the instance.                                              *)
(***************************************************************************)
InitCallers ==
    /\ \E tok \in {NoToken} \cup CfgTokens : InitApi(tok)
    /\ InitProcs
    /\ NoFetcher
    /\ InitGhost
    /\ NoLadder
    /\ NoUrl
    /\ NoLookup

NextCallers ==
    \E p \in Procs :
        \/ GetAccessTokenCall(p)
        \/ LockWake(p)
        \/ \E st \in Statuses : CheckResponse(p, st)
        \/ \E resp \in OAuthResponses : TokenAttempt(p, resp)

SpecCallers == InitCallers /\ [][NextCallers]_vars

(***************************************************************************)
(* SpecTok: get_access_token callers interleaved with read_config, changes *)
(* of the config store and direct check_access_token calls.                *)
(***************************************************************************)
NextTok ==
    \/ \E p \in Procs :
           \/ GetAccessTokenCall(p)
           \/ LockWake(p)
           \/ \E st \in Statuses : CheckResponse(p, st)
           \/ \E resp \in OAuthResponses : TokenAttempt(p, resp)
           \/ \E tok \in {access_token} \cup CfgTokens : CheckAccessTokenCall(p, tok)
           \/ \E st \in Statuses : CheckAccessTokenReturn(p, st)
    \/ ReadConfig
    \/ \E tok \in {NoToken} \cup CfgTokens : ConfigChange(tok)

SpecTok == InitCallers /\ [][NextTok]_vars

(***************************************************************************)
(* SpecCfg: one get_access_token call, with read_config calls and changes  *)
(* of the config store at any moment before, during and after it.          *)
(***************************************************************************)
NextCfg ==
    \/ \E p \in FirstProc :
           \/ GetAccessTokenCall(p)
           \/ \E st \in Statuses : CheckResponse(p, st)
           \/ \E resp \in OAuthResponses : TokenAttempt(p, resp)
    \/ ReadConfig
    \/ \E tok \in {NoToken} \cup CfgTokens : ConfigChange(tok)

SpecCfg == InitCallers /\ [][NextCfg]_vars

(***************************************************************************)
(* SpecFetch: one coroutine runs one fetcher, from its get_access_token     *)
(* call to the end of its request, with no other use of the instance.      *)
(***************************************************************************)
InitFetch ==
    /\ \E tok \in {NoToken} \cup CfgTokens : InitApi(tok)
    /\ InitProcs
    /\ fetcher \in [Procs -> Fetchers \cup {"none"}]
    /\ \A p \in Procs : fetcher[p] # "none" <=> p \in Fetching
    /\ InitGhost
    /\ NoLadder
    /\ NoUrl
    /\ NoLookup

NextFetch ==
    \E p \in Fetching :
        \/ GetAccessTokenCall(p)
        \/ \E st \in Statuses : CheckResponse(p, st)
        \/ \E resp \in OAuthResponses : TokenAttempt(p, resp)
        \/ \E resp \in Responses(DataBodies) : RequestAttempt(p, resp)

SpecFetch == InitFetch /\ [][NextFetch]_vars

(***************************************************************************)
(* SpecLadder: one _get_ladder_data generator drained by its consumer, for *)
(* every ladder response within the bounds.                                *)
(***************************************************************************)
InitLadderSpec ==
    /\ InitApi(NoToken)
    /\ InitProcs
    /\ NoFetcher
    /\ InitGhost
    /\ \E d \in LadderData : InitLadder(d)
    /\ NoUrl
    /\ NoLookup

NextLadder ==
    \/ LadderYield
    \/ LadderRaise
    \/ LadderStop

SpecLadder == InitLadderSpec /\ [][NextLadder]_vars

(***************************************************************************)
(* SpecUrl: one parse_profile_url call, for every URL within the bounds.   *)
(***************************************************************************)
InitUrl ==
    /\ InitApi(NoToken)
    /\ InitProcs
    /\ NoFetcher
    /\ InitGhost
    /\ NoLadder
    /\ \E parts \in GenericParts \cup RegionParts :
           /\ url_parts = parts
           /\ url = Assemble(parts)
    /\ parsed = NoResult
    /\ NoLookup

NextUrl == ParseProfileUrl

SpecUrl == InitUrl /\ [][NextUrl]_vars

(***************************************************************************)
(* SpecEnum: one League.get or Race.get call, on the name of a member in   *)
(* a letter-case variant, on the empty string, or on None.                 *)
(***************************************************************************)
InitEnum ==
    /\ InitApi(NoToken)
    /\ InitProcs
    /\ NoFetcher
    /\ InitGhost
    /\ NoLadder
    /\ NoUrl
    /\ \E cls \in {"League", "Race"} :
           \/ \E i \in DOMAIN MembersOf(cls) :
                  \E chars \in CaseVariants(MembersOf(cls)[i].name) :
                      /\ lookup = [cls |-> cls, member |-> i]
                      /\ lookup_arg = PyStr(chars)
           \/ /\ lookup = [cls |-> cls, member |-> 0]
              /\ lookup_arg \in {PyNone, PyStr(<<>>)}
    /\ lookup_out = NoResult

NextEnum == EnumLookup

SpecEnum == InitEnum /\ [][NextEnum]_vars

(***************************************************************************)
(* Claims about League.get and Race.get (under SpecEnum).                  *)
(***************************************************************************)
\* C22: League.get of the name of a member L, in any letter case, returns
\* L; Race.get of the name of a member R returns R; an empty or missing
\* value gives League.Unranked, Race.Random respectively.
C22_LookupsFaithful ==
    lookup_out # NoResult =>
        /\ (lookup.cls = "League" /\ lookup.member # 0) =>
               lookup_out = [kind |-> "return", value |-> LeagueMembers[lookup.member]]
        /\ (/\ lookup.cls = "Race"
            /\ lookup.member # 0
            /\ lookup_arg = PyStr(RaceMembers[lookup.member].name)) =>
               lookup_out = [kind |-> "return", value |-> RaceMembers[lookup.member]]
        /\ (lookup.cls = "League" /\ lookup.member = 0) =>
               /\ lookup_out.kind = "return"
               /\ lookup_out.value.name = <<"U", "n", "r", "a", "n", "k", "e", "d">>
        /\ (lookup.cls = "Race" /\ lookup.member = 0) =>
               /\ lookup_out.kind = "return"
               /\ lookup_out.value.name = <<"R", "a", "n", "d", "o", "m">>

(***************************************************************************)
(* Claims about parse_profile_url (under SpecUrl).                         *)
(***************************************************************************)
\* The parts spell a URL of the generic grammar: server code 1..5, realm 1..2.
ValidGeneric(parts) ==
    /\ parts.grammar = "generic"
    /\ parts.scheme \in GoodSchemes
    /\ parts.host = STARCRAFT2_COM
    /\ parts.locale \in GoodLocales
    /\ parts.server \in 1..5
    /\ parts.realm \in 1..2
    /\ parts.id.num >= 0

\* The parts spell a URL of the region grammar: eu or us, realm 1..2.
ValidRegion(parts) ==
    /\ parts.grammar = "region"
    /\ parts.scheme \in GoodSchemes
    /\ parts.region \in GoodRegions
    /\ parts.realm \in 1..2
    /\ parts.id.num >= 0
    /\ parts.name # <<>>

\* What parse_profile_url returns for the triple (server, realm, profileId).
Triple(server, realm, id) ==
    [kind |-> "return", value |-> <<[enum |-> "Server", value |-> server], realm, id>>]

\* C8: parse_profile_url recovers the exact (server, realm, profileId) of
\* every URL of the generic grammar, for every server code 1..5 and realm
\* 1..2, and of every URL of the region grammar (eu: server 2, us: server 1);
\* for a string that matches neither pattern it raises ValueError.
C8_ParseRecoversTriple ==
    parsed # NoResult =>
        /\ ValidGeneric(url_parts) =>
               parsed = Triple(url_parts.server, url_parts.realm, url_parts.id.num)
        /\ ValidRegion(url_parts) =>
               parsed = Triple(IF LowerStr(url_parts.region) = <<"e", "u">> THEN 2 ELSE 1,
                               url_parts.realm, url_parts.id.num)
        /\ (~P1Match(url).ok /\ ~P2Match(url).ok) => parsed = ValueError

(***************************************************************************)
(* Claims about _get_ladder_data (under SpecLadder).                       *)
(***************************************************************************)
\* The team the i-th yielded entry was built from.
TeamOf(i) == data.ladderTeams[matched[i].team + 1]

\* The rank entry the i-th yielded entry was built for.
MetaOf(i) == data.ranksAndPools[matched[i].entry]

\* C3: within one ladder-data fetch no team is assigned to more than one
\* rank entry: two distinct entries that both produced an output were matched
\* to different teams, also when two rank entries declare the same rank.
C3_NoTeamTwice ==
    \A i, j \in DOMAIN matched :
        i # j => matched[i].team # matched[j].team

\* C5: when neither the claimed index nor the fallback scan yields a team of
\* the target profile, the fetch fails with InvalidApiResponse and produces no
\* entry for that rank entry or a later one.
C5_FailsWithInvalidApiResponse ==
    ladder_state = "raised" =>
        /\ ladder_exc = "InvalidApiResponse"
        /\ Len(yielded) = rank_pos - 1

\* C6: the fetch yields exactly one entry per rank entry, in the order of
\* ranksAndPools; a fetch that ran to its end has yielded one entry for every
\* rank entry, and a fetch that failed at rank entry j has yielded exactly the
\* j - 1 entries of the earlier rank entries.
C6_OneEntryPerRankInOrder ==
    /\ Len(matched) = Len(yielded)
    /\ \A i \in DOMAIN matched : matched[i].entry = i
    /\ ladder_state = "running" => Len(yielded) = rank_pos - 1
    /\ ladder_state = "exhausted" => Len(yielded) = Len(data.ranksAndPools)
    /\ ladder_state = "raised" =>
           /\ rank_pos \in DOMAIN data.ranksAndPools
           /\ Len(yielded) = rank_pos - 1

\* C6 witness: a fetch failed partway, after it had yielded an entry.
C6_Witness ==
    /\ ladder_state = "raised"
    /\ rank_pos > 1
    /\ Len(yielded) = rank_pos - 1

\* C10: the mmr of every yielded entry is the mmr of the team it was matched
\* to, whether or not the rank entry's own mmr agrees; the warning is logged
\* exactly for the entries where they disagree.
C10_TeamMmrWins ==
    \A i \in DOMAIN yielded :
        /\ yielded[i].mmr = TeamOf(i).mmr
        /\ matched[i].entry \in warned <=> MetaOf(i).mmr # TeamOf(i).mmr

\* C10 witness: an entry was yielded for a team whose mmr differs from the
\* rank entry's.
C10_Witness ==
    \E i \in DOMAIN yielded :
        /\ MetaOf(i).mmr # TeamOf(i).mmr
        /\ yielded[i].mmr = TeamOf(i).mmr
        /\ matched[i].entry \in warned

\* The claimed index of the rank entry the next iteration handles: rank - 1.
ClaimedIdx == MetaData.rank - 1

\* The generator is about to handle a rank entry.
AtRankEntry == ladder_state = "running" /\ rank_pos <= Len(data.ranksAndPools)

\* The claimed index of that rank entry lies in 0..len(ladderTeams)-1.
ClaimedInBounds == ClaimedIdx \in 0..(Len(data.ladderTeams) - 1)

\* C15: for a rank entry whose claimed index rank - 1 is within bounds and
\* whose team at that index has a first member matching the target's id and
\* realm, the entry is built from exactly that team, by the claimed index and
\* not by a scan, and found_idx (the scan watermark) is left unchanged.
C15_ClaimedIndexNoScan ==
    [][ (/\ AtRankEntry
         /\ ClaimedInBounds
         /\ Matches(data.ladderTeams[ClaimedIdx + 1]))
        => /\ Len(yielded') = Len(yielded) + 1
           /\ matched'[Len(matched')] =
                  [entry |-> rank_pos, team |-> ClaimedIdx, how |-> "claimed"]
           /\ yielded'[Len(yielded')].mmr = data.ladderTeams[ClaimedIdx + 1].mmr
           /\ found_idx' = found_idx
      ]_vars

\* C15 witness: an entry was built from the team at its claimed index 1
\* although the team at index 0 matches as well and was not consumed before.
C15_Witness ==
    \E i \in DOMAIN matched :
        /\ matched[i].how = "claimed"
        /\ MetaOf(i).rank = 2
        /\ matched[i].team = 1
        /\ Matches(data.ladderTeams[1])
        /\ \A j \in 1..(i - 1) : matched[j].team # 0

\* C16: a fallback scan returns only a team index strictly greater than
\* every team index matched by an earlier rank entry, whether the earlier
\* match came from the claimed index or from a scan.
C16_ScanAboveHighestMatched ==
    \A i \in DOMAIN matched :
        matched[i].how = "scan" =>
            \A j \in 1..(i - 1) : matched[i].team > matched[j].team

\* C17: an entry whose claimed index rank - 1 lies outside
\* 0..len(ladderTeams)-1 (rank <= 0 as well as rank > number of teams) is
\* never built from a team accepted by the claimed index: its team comes
\* from the fallback scan.
C17_OutOfBoundsScans ==
    \A i \in DOMAIN matched :
        MetaOf(i).rank - 1 \notin 0..(Len(data.ladderTeams) - 1) =>
            matched[i].how = "scan"

\* The teams (0-based positions) the first n yielded entries were built from.
Consumed(n) == {matched[j].team : j \in 1..n}

\* The teams of the whole list that match the target and are not among the
\* first n yielded entries' teams.
UnconsumedMatching(n) ==
    {t \in 0..(Len(data.ladderTeams) - 1) :
        t \notin Consumed(n) /\ Matches(data.ladderTeams[t + 1])}

\* C18: the team a fallback scan accepts is the lowest-index team of the
\* whole list that is not yet consumed and whose first member matches the
\* target, and the fetch fails only when no unconsumed matching team exists
\* anywhere in the list.
C18_ScanPicksLowestUnconsumed ==
    /\ \A i \in DOMAIN matched :
           matched[i].how = "scan" =>
               /\ matched[i].team \in UnconsumedMatching(i - 1)
               /\ \A t \in UnconsumedMatching(i - 1) : matched[i].team <= t
    /\ ladder_state = "raised" => UnconsumedMatching(Len(matched)) = {}

\* C21: every yielded entry is built from a team of the response whose
\* first member has the target profile's id and realm, whatever the ranks
\* are (zero, negative, duplicated or past the end of the team list).
C21_YieldedFromTargetTeam ==
    \A i \in DOMAIN matched :
        /\ matched[i].team \in 0..(Len(data.ladderTeams) - 1)
        /\ TeamOf(i).member = Target
        /\ yielded[i].mmr = TeamOf(i).mmr

\* C21 witness: the claimed index of a rank entry points at a team of the
\* target's id in another realm, and the entry was built from a later team
\* of the target; and an entry was built for a rank of zero or less.
C21_Witness ==
    /\ \E i \in DOMAIN matched :
           /\ MetaOf(i).rank - 1 \in 0..(Len(data.ladderTeams) - 1)
           /\ data.ladderTeams[MetaOf(i).rank].member = [id |-> 42, realm |-> 2]
           /\ matched[i].team > MetaOf(i).rank - 1
    /\ \E i \in DOMAIN matched : MetaOf(i).rank <= 0

(***************************************************************************)
(* Claims about the token manager.                                         *)
(***************************************************************************)
\* p's get_access_token call has returned the token `tok`.
Returned(p, tok) == result[p] = [kind |-> "return", value |-> tok]

\* C1 (SpecCallers): when the callers start with no cached token and the
\* OAuth endpoint answers every token request with a decodable 200, at most
\* one token request is ever sent, and every caller that has returned has
\* returned the token that one request issued.
C1_SingleFlight ==
    (start_token = NoToken /\ oauth_rejects = 0) =>
        /\ oauth_requests <= 1
        /\ \A p \in Procs :
               pc[p] = "done" => oauth_requests = 1 /\ Returned(p, NewToken(1))

\* C1 witness: all callers have returned after a start without a token and a
\* single, successful token request.
C1_Witness ==
    /\ start_token = NoToken
    /\ oauth_rejects = 0
    /\ oauth_requests = 1
    /\ \A p \in Procs : pc[p] = "done" /\ Returned(p, NewToken(1))

\* C4 (SpecTok): a token returned by get_access_token is one the token-check
\* endpoint accepted or the OAuth endpoint issued; it is never a token that
\* only carries a flag set on behalf of another token value.
C4_ReturnedTokenVouched ==
    \A p \in Procs :
        (pc[p] = "done" /\ result[p].kind = "return") => result[p].value \in vouched

\* The executor call of p's token request ends in this step.
TokenRequestEnds(p) ==
    /\ pc[p] = "token_request"
    /\ gets'[p] = gets[p] + 1
    /\ ~PerformAttempt(frame[p], last_resp'[p]).looping

\* What that executor call returns to receive_new_access_token.
TokenRequestResult(p) == AfterLoop(PerformAttempt(frame[p], last_resp'[p]))

\* C9 (SpecCallers): when the executor call of the token request returns a
\* status other than 200, get_access_token ends in that same step (no second
\* executor call) by raising InvalidApiResponse with that status, the lock is
\* free again, and the cached token and the config value are unchanged; they
\* change in no step but a successful token issuance.
C9_RefreshFailure ==
    [][ /\ \A p \in Procs :
             (/\ TokenRequestEnds(p)
              /\ TokenRequestResult(p).kind = "return"
              /\ TokenRequestResult(p).value.status # StatusOK)
             => /\ pc'[p] = "done"
                /\ result'[p] = [kind |-> "raise", exc |-> "InvalidApiResponse",
                                 arg |-> TokenRequestResult(p).value.status]
                /\ ~lock_locked'
                /\ access_token' = access_token
                /\ config_token' = config_token
        /\ (access_token' # access_token \/ config_token' # config_token) =>
               \E p \in Procs :
                   /\ TokenRequestEnds(p)
                   /\ TokenRequestResult(p).kind = "return"
                   /\ TokenRequestResult(p).value.status = StatusOK
      ]_vars

\* C9 witness: one caller's refresh was rejected and raised, the lock is held
\* again and a later caller's own token request is in flight.
C9_Witness ==
    \E p, q \in Procs :
        /\ pc[p] = "done"
        /\ result[p].kind = "raise"
        /\ result[p].exc = "InvalidApiResponse"
        /\ result[p].arg # 0
        /\ pc[q] = "token_request"
        /\ lock_locked

\* p is inside a validate/refresh sequence: its check_token request or its
\* OAuth token request is in flight.
InFlight(p) == pc[p] \in {"check", "token_request"}

\* C11 (SpecCallers): among the callers of get_access_token at most one
\* validate/refresh sequence is in flight at any time, and its owner holds
\* the lock; a caller starts its check or refresh only in a step in which no
\* other caller is, or remains, inside one.
C11_OneSequenceInFlight ==
    /\ Cardinality({p \in Procs : InFlight(p)}) <= 1
    /\ (\E p \in Procs : InFlight(p)) => lock_locked

\* C11 witness: one caller's sequence is in flight while another caller waits
\* for the lock.
C11_Witness ==
    \E p, q \in Procs :
        /\ InFlight(p)
        /\ pc[q] = "wait"
        /\ q \in Range(lock_waiters)

\* The token-check endpoint has accepted the token stored at the start.
StartTokenAccepted == start_token \in vouched

\* C19 (SpecCallers): when the callers start with a token that is stored
\* but not checked and every OAuth token request succeeds, at most one
\* token-check request and at most one OAuth token request are ever sent;
\* a caller that has returned did so after exactly one check: if the check
\* answered 200 no OAuth request was sent and the caller returned the
\* stored token, otherwise exactly one OAuth request was sent and the
\* caller returned the token it issued.
C19_SingleCheck ==
    (start_token # NoToken /\ oauth_rejects = 0) =>
        /\ check_requests <= 1
        /\ oauth_requests <= 1
        /\ StartTokenAccepted => oauth_requests = 0 /\ access_token = start_token
        /\ \A p \in Procs :
               pc[p] = "done" =>
                   /\ check_requests = 1
                   /\ IF StartTokenAccepted
                      THEN Returned(p, start_token)
                      ELSE oauth_requests = 1 /\ Returned(p, NewToken(1))

\* C19 witness: the stored token was rejected by the one check, one OAuth
\* request issued a new token, and every caller has returned that token.
C19_Witness ==
    /\ start_token # NoToken
    /\ ~StartTokenAccepted
    /\ check_requests = 1
    /\ oauth_requests = 1
    /\ oauth_rejects = 0
    /\ \A p \in Procs : pc[p] = "done" /\ Returned(p, NewToken(1))

\* A step of the instance that is no step of a coroutine and no change of
\* the config store: a read_config call.
ReadConfigStep == UNCHANGED <<procVars, ghostVars, config_token, request_count>>

\* C20 (SpecCfg): read_config replaces the cached token and sets the checked
\* flag to false exactly when the config value differs from the cached
\* token; when the two are equal it leaves the cached token and the flag as
\* they are.
C20_ReadConfigFrame ==
    [][ ReadConfigStep =>
          IF access_token # config_token
          THEN access_token' = config_token /\ access_token_checked' = FALSE
          ELSE UNCHANGED <<access_token, access_token_checked>>
      ]_vars

\* C20 witness: get_access_token returned the stored token after the check
\* accepted it (flag true); the config value then changed and read_config
\* replaced the cached token and reset the flag.
C20_Witness ==
    \E p \in FirstProc :
        /\ pc[p] = "done"
        /\ Returned(p, start_token)
        /\ config_changes = 1
        /\ access_token = config_token
        /\ access_token # start_token
        /\ ~access_token_checked

(***************************************************************************)
(* Claims about _perform_api_request (under SpecReq).                      *)
(***************************************************************************)
\* The call of p has ended after k transient responses and one decodable 200.
EndedOn200(p) ==
    /\ pc[p] = "done"
    /\ ~IsTransient(last_resp[p])
    /\ last_resp[p].status = StatusOK

\* C2: a call whose first k responses (k in 0..9) are transient and whose
\* (k+1)-th response is a decodable 200 returns that decoded payload with
\* status 200, and has increased retry_count by exactly k.
C2_TransientsThen200 ==
    \A p \in Requesters :
        EndedOn200(p) =>
            /\ result[p] = [kind |-> "return",
                            value |-> [json |-> Decode(last_resp[p]),
                                       status |-> StatusOK]]
            /\ transients[p] = gets[p] - 1
            /\ gets[p] \in 1..MaxAttempts

\* C7: a call in which all 10 responses are transient performs exactly 10
\* attempts, ends without raising and returns the empty payload with status 0;
\* no call performs an 11th attempt.
C7_ExhaustedDegrades ==
    \A p \in Requesters :
        /\ gets[p] <= MaxAttempts
        /\ transients[p] = MaxAttempts => pc[p] = "done"
        /\ (pc[p] = "done" /\ transients[p] = gets[p]) =>
               /\ gets[p] = MaxAttempts
               /\ result[p] = [kind |-> "return",
                               value |-> [json |-> EmptyJson, status |-> 0]]

\* C7 witness: a call has ended after ten transient responses.
C7_Witness ==
    \E p \in Requesters :
        pc[p] = "done" /\ transients[p] = MaxAttempts /\ gets[p] = MaxAttempts

\* C12: a response with a decodable body and a status other than 504 ends
\* the call at that attempt: no further GET is issued and the call returns the
\* decoded payload with exactly that status; a call that is still requesting
\* has so far seen only 504s and undecodable bodies.
C12_StopsOnDecodable ==
    \A p \in Requesters :
        /\ (gets[p] >= 1 /\ ~IsTransient(last_resp[p])) =>
               /\ pc[p] = "done"
               /\ result[p] = [kind |-> "return",
                               value |-> [json |-> Decode(last_resp[p]),
                                          status |-> last_resp[p].status]]
        /\ (pc[p] = "request" /\ gets[p] >= 1) => IsTransient(last_resp[p])

(***************************************************************************)
(* Claims about the fetchers (under SpecFetch).                            *)
(***************************************************************************)
\* The executor call of p's fetcher ends in this step.
FetchRequestEnds(p) == pc[p] = "request" /\ pc'[p] = "done"

\* What that executor call returns to the fetcher.
FetchRequestResult(p) == AfterLoop(PerformAttempt(frame[p], last_resp'[p]))

\* C13: every fetcher first obtains a token through get_access_token and
\* then issues its request through the executor with that token in its
\* payload; when get_access_token raises, no request is issued; and when
\* the executor's status is not 200 (0 included) the fetcher raises
\* InvalidApiResponse with that status and produces no data, while data
\* is produced only from a status of 200.
C13_FetchersRaiseOnNon200 ==
    [][ \A p \in Fetching :
          /\ (pc[p] # "request" /\ pc'[p] = "request") =>
                 /\ pc[p] \in {"idle", "check", "token_request"}
                 /\ frame'[p].retries = 0
                 /\ frame'[p].kwargs = [access_token |-> access_token']
                 /\ access_token' # NoToken
          /\ (pc[p] # "request" /\ pc'[p] = "done") =>
                 /\ result'[p].kind = "raise"
                 /\ "payload" \notin DOMAIN last_resp'[p].body
          /\ FetchRequestEnds(p) =>
                 /\ FetchRequestResult(p).kind = "return"
                 /\ FetchRequestResult(p).value.status # StatusOK =>
                        result'[p] = [kind |-> "raise", exc |-> "InvalidApiResponse",
                                      arg |-> FetchRequestResult(p).value.status]
                 /\ FetchRequestResult(p).value.status = StatusOK =>
                        /\ result'[p].kind \in {"return", "data"}
                        /\ last_resp'[p].status = StatusOK
      ]_vars

\* C13 witness: the _get_ladder_data fetcher has raised InvalidApiResponse(0)
\* after its data request was answered by transient responses only.
C13_Witness ==
    \E p \in Fetching :
        /\ fetcher[p] = "_get_ladder_data"
        /\ pc[p] = "done"
        /\ "payload" \in DOMAIN last_resp[p].body
        /\ result[p] = [kind |-> "raise", exc |-> "InvalidApiResponse", arg |-> 0]

(***************************************************************************)
(* Claims about the counters (under SpecFetch).                            *)
(***************************************************************************)
RECURSIVE SumOver(_, _)
\* The sum of f[p] over the coroutines p of S.
SumOver(f, S) ==
    IF S = {} THEN 0
    ELSE LET p == CHOOSE q \in S : TRUE IN f[p] + SumOver(f, S \ {p})

\* GETs whose response has arrived: executor attempts and token checks.
GetsAnswered == SumOver(gets, Procs) + check_requests

\* GETs sent whose response has not arrived: one per coroutine suspended in
\* session.get.
GetsInFlight ==
    Cardinality({p \in Procs :
                    pc[p] \in {"request", "token_request", "check", "own_check"}})

\* GETs the instance has issued so far.
GetsIssued == GetsAnswered + GetsInFlight

\* C14: in every reachable state request_count equals the number of GETs the
\* instance has issued so far, and retry_count the number of executor
\* attempts classified transient, so that retry_count <= request_count.
C14_CountsIssued ==
    /\ request_count = GetsIssued
    /\ retry_count = SumOver(transients, Procs)
    /\ retry_count <= request_count

\* C14 as amended: request_count equals the number of GETs whose response
\* has arrived (a GET in flight is not counted yet), retry_count the number
\* of executor attempts classified transient, retry_count <= request_count,
\* and neither counter ever decreases.
C14_CountsAnswered ==
    /\ [](/\ request_count = GetsAnswered
          /\ retry_count = SumOver(transients, Procs)
          /\ retry_count <= request_count)
    /\ [][request_count' >= request_count /\ retry_count' >= retry_count]_vars

\* C14 witness: a token check and transient and non-transient executor
\* attempts have been counted while a further GET is in flight.
C14_Witness ==
    /\ check_requests = 1
    /\ retry_count >= 1
    /\ request_count > retry_count + 1
    /\ GetsInFlight = 1
    /\ request_count = GetsAnswered

====
